---- MODULE Spec2Model ----
(***************************************************************************)
(* kCSD source-grid builder, 3D basis/forward-model helpers and the        *)
(* Method-of-Images estimator (KCSD3D_Helpers.py, MoIKCSD.py).             *)
(*                                                                         *)
(* Floating-point values are modelled as exact rationals plus one          *)
(* non-finite value standing for inf and nan.  Lengths are integers.       *)
(***************************************************************************)
EXTENDS Integers, Sequences, FiniteSets, TLC

VARIABLES
    g_pc,       \* source grid builder: "input" | "params" | "made"
    g_in,       \* arguments of make_src_3D / get_src_params_3D
    g_out,      \* what the call returned
    b_pc,       \* basis / 3D integrand: "input" | "step" | "int3d"
    b_in,       \* arguments of step_rescale_3D / int_pot_3D
    b_out,      \* what the call returned
    e_pc,       \* MoIKCSD.__init__: index of the next statement; past the end
                \* once constructed; 0 when an exception left the constructor
    e_kwargs,   \* **kwargs given to MoIKCSD.__init__
    e_self,     \* the attributes set on self so far
    e_super,    \* "no" | "running" | "done": the parent constructor
    e_args,     \* the arguments forward_model is called with
    e_call,     \* the last forward_model call: arguments, integrand, outcome
    e_ncalls,   \* forward_model calls made so far
    cv_pc,      \* cross_validate: "idle" | "fold" | "select" | "solve" |
                \* "done" | "failed"
    cv_in,      \* n_ele and the candidate list
    cv_st       \* the cross-validator's working state

gridVars == <<g_pc, g_in, g_out>>
basisVars == <<b_pc, b_in, b_out>>
estVars == <<e_pc, e_kwargs, e_self, e_super, e_args, e_call, e_ncalls>>
cvVars == <<cv_pc, cv_in, cv_st>>
vars == <<g_pc, g_in, g_out, b_pc, b_in, b_out,
          e_pc, e_kwargs, e_self, e_super, e_args, e_call, e_ncalls,
          cv_pc, cv_in, cv_st>>

(***************************************************************************)
(* Bounds of the model.                                                    *)
(***************************************************************************)
MaxLen == 3        \* electrode bounding box: max - min per axis, 0..MaxLen
MaxExt == 1        \* requested margin ext_x, ext_y, ext_z, 0..MaxExt
MaxSrc == 4        \* requested n_src, 1..MaxSrc
MaxRNum == 2       \* R_init = r / RDen, r in 1..MaxRNum
RDen == 2
MaxCoord == 2      \* 3D points: coordinates in -MaxCoord..MaxCoord
MaxPt == 1         \* 2D integration points: coordinates in -MaxPt..MaxPt
MaxIters == 2      \* MoI_iters when given, 0..MaxIters
MaxCalls == 2      \* forward_model calls followed per estimator
Radii == {1, 2}    \* basis radius R
Thickness == {1, 2}    \* slice thickness h
MaxEle == 2        \* electrodes n_ele, 0..MaxEle
MaxLam == 2        \* candidate lambdas are drawn from 0..MaxLam
MaxCand == 3       \* candidates in the list, 1..MaxCand
MaxErr == 1        \* squared error of one held-out prediction, 0..MaxErr

(***************************************************************************)
(* Program constants.                                                      *)
(***************************************************************************)
DistFloor == 2             \* 0.00001, in the model's unit of length
DefaultMoIIters == 20
DefaultSigmaS == 5
DefaultSigma == 1

(***************************************************************************)
(* Float arithmetic.                                                       *)
(***************************************************************************)
Abs(a) == IF a < 0 THEN -a ELSE a

RECURSIVE GCD(_, _)
GCD(a, b) == IF b = 0 THEN a ELSE GCD(b, a % b)

\* the rational n/d (d # 0), in lowest terms with a positive denominator
Fin(n, d) ==
    LET g == GCD(Abs(n), Abs(d))
        s == IF d < 0 THEN -1 ELSE 1
    IN  [fin |-> TRUE, n |-> (s * n) \div g, d |-> (s * d) \div g]

\* inf, -inf and nan
NonFinite == [fin |-> FALSE, n |-> 0, d |-> 1]

FromInt(i) == Fin(i, 1)

FAdd(a, b) ==
    IF a.fin /\ b.fin THEN Fin(a.n * b.d + b.n * a.d, a.d * b.d) ELSE NonFinite

FSub(a, b) ==
    IF a.fin /\ b.fin THEN Fin(a.n * b.d - b.n * a.d, a.d * b.d) ELSE NonFinite

FMul(a, b) ==
    IF a.fin /\ b.fin THEN Fin(a.n * b.n, a.d * b.d) ELSE NonFinite

\* numpy float division: x / 0 is inf or nan, with a warning and no exception.
\* finite / inf is 0 in IEEE arithmetic; its only use here is R_init / ds,
\* whose result is multiplied by ds again (0 * inf = nan), so it is kept
\* non-finite.
FDiv(a, b) ==
    IF a.fin /\ b.fin /\ b.n # 0 THEN Fin(a.n * b.d, a.d * b.n) ELSE NonFinite

\* np.round: to the nearest integer, halves to the even one
NpRound(a) ==
    IF ~a.fin THEN NonFinite
    ELSE LET fl == a.n \div a.d
             r2 == 2 * (a.n % a.d)
         IN  IF r2 < a.d THEN FromInt(fl)
             ELSE IF r2 > a.d THEN FromInt(fl + 1)
             ELSE IF fl % 2 = 0 THEN FromInt(fl) ELSE FromInt(fl + 1)

(***************************************************************************)
(* get_src_params_3D                                                       *)
(***************************************************************************)
\* the least integer m >= from with m >= L / L_unit, where
\* L_unit = (L*A*B / n_src)^(1/3):  m^3 * A * B >= L^2 * n_src
RECURSIVE LeastCount(_, _, _, _, _)
LeastCount(from, L, A, B, n_src) ==
    IF from * from * from * A * B >= L * L * n_src THEN from
    ELSE LeastCount(from + 1, L, A, B, n_src)

\* L / L_unit is exactly the integer m
ExactQuot(m, L, A, B, n_src) == m * m * m * A * B = L * L * n_src

\* np.floor in place of np.ceil
NpCeilAsFloor(L, A, B, n_src) ==
    LET m == LeastCount(1, L, A, B, n_src)
    IN  IF m > 1 /\ ~ExactQuot(m, L, A, B, n_src) THEN m - 1 ELSE m

\* np.ceil(L / L_unit), L_unit = V_unit ** (1./3.).  Where the quotient is
\* an exact integer m the float cube root decides: (c^3) ** (1./3.) is c for
\* c = 1, 2, 3 and falls just below c for the larger cube roots c = L / m
\* (64 ** (1./3.) = 3.9999999999999996), and then the quotient comes out just
\* above m and its ceiling is m + 1.
NpCeil(L, A, B, n_src) ==
    LET m == LeastCount(1, L, A, B, n_src)
    IN  IF ExactQuot(m, L, A, B, n_src) /\ L >= 4 * m THEN m + 1 ELSE m

get_src_params_3D(Lx, Ly, Lz, n_src) ==
    LET nx == NpCeil(Lx, Ly, Lz, n_src)
        ny == NpCeil(Ly, Lx, Lz, n_src)
        nz == NpCeil(Lz, Lx, Ly, n_src)
        ds == FDiv(FromInt(Lx), FromInt(nx - 1))
    IN  [nx |-> nx, ny |-> ny, nz |-> nz,
         Lx_n |-> FMul(FromInt(nx - 1), ds),
         Ly_n |-> FMul(FromInt(ny - 1), ds),
         Lz_n |-> FMul(FromInt(nz - 1), ds),
         ds |-> ds]

(***************************************************************************)
(* make_src_3D                                                             *)
(***************************************************************************)
\* np.linspace(start, stop, num): num points, the first at start; one point
\* is start alone
Linspace(start, stop, num) ==
    [i \in 1..num |->
        IF num = 1 THEN start
        ELSE FAdd(start, FMul(FromInt(i - 1),
                              FDiv(FSub(stop, start), FromInt(num - 1))))]

\* X, Y, Z enter only through their minima and maxima: lo[a], lo[a] + len[a].
\* The meshgrid is returned as its three axes.
make_src_3D(lo, len, n_src, ext, R_init) ==
    LET Lx_n == len[1] + 2 * ext[1]
        Ly_n == len[2] + 2 * ext[2]
        Lz_n == len[3] + 2 * ext[3]
        p == get_src_params_3D(Lx_n, Ly_n, Lz_n, n_src)
        ext_x_n == FDiv(FSub(p.Lx_n, FromInt(len[1])), FromInt(2))
        ext_y_n == FDiv(FSub(p.Ly_n, FromInt(len[2])), FromInt(2))
        ext_z_n == FDiv(FSub(p.Lz_n, FromInt(len[3])), FromInt(2))
        d == NpRound(FDiv(R_init, p.ds))
    IN  [lin_x |-> Linspace(FSub(FromInt(lo[1]), ext_x_n),
                            FAdd(FromInt(lo[1] + len[1]), ext_x_n), p.nx),
         lin_y |-> Linspace(FSub(FromInt(lo[2]), ext_y_n),
                            FAdd(FromInt(lo[2] + len[2]), ext_y_n), p.ny),
         lin_z |-> Linspace(FSub(FromInt(lo[3]), ext_z_n),
                            FAdd(FromInt(lo[3] + len[3]), ext_z_n), p.nz),
         R |-> FMul(d, p.ds)]

(***************************************************************************)
(* The source grid builder as a state machine: the arguments are drawn at  *)
(* the start, then one of the two functions is applied to them.            *)
(***************************************************************************)
Axes == 1..3
Origins == {<<0, 0, 0>>, <<-1, 1, -2>>}
GridIdle == [lo |-> <<0, 0, 0>>, len |-> <<0, 0, 0>>, ext |-> <<0, 0, 0>>,
             n_src |-> 0, R_init |-> FromInt(0)]
NoResult == [none |-> TRUE]

InitGridIdle == g_pc = "off" /\ g_in = GridIdle /\ g_out = NoResult

InitGrid ==
    /\ g_pc = "input"
    /\ g_in \in {i \in [lo : Origins, len : [Axes -> 0..MaxLen],
                        ext : [Axes -> 0..MaxExt], n_src : 1..MaxSrc,
                        R_init : {Fin(r, RDen) : r \in 1..MaxRNum}] :
                    \A a \in Axes : i.len[a] + 2 * i.ext[a] > 0}
    /\ g_out = NoResult

\* the extents make_src_3D hands to get_src_params_3D
ExtentN(a) == g_in.len[a] + 2 * g_in.ext[a]

GetSrcParams ==
    /\ UNCHANGED <<basisVars, estVars, cvVars>>
    /\ g_pc = "input"
    /\ g_out' = get_src_params_3D(ExtentN(1), ExtentN(2), ExtentN(3),
                                   g_in.n_src)
    /\ g_pc' = "params"
    /\ UNCHANGED g_in

MakeSrc ==
    /\ UNCHANGED <<basisVars, estVars, cvVars>>
    /\ g_pc = "input"
    /\ g_out' = make_src_3D(g_in.lo, g_in.len, g_in.n_src, g_in.ext,
                             g_in.R_init)
    /\ g_pc' = "made"
    /\ UNCHANGED g_in

(***************************************************************************)
(* Basis functions (3D).  Values are exact where they are rational         *)
(* multiples of 1/pi, symbolic otherwise.                                  *)
(***************************************************************************)
\* 3/(4*pi*R^3) * (xp^2 + yp^2 + zp^2 <= R^2), as a multiple of 1/pi
step_rescale_3D(xp, yp, zp, mu, R) ==
    Fin(IF xp * xp + yp * yp + zp * zp <= R * R THEN 3 ELSE 0, 4 * R * R * R)

\* h * exp(-c * r2), with h and c fixed by three_stdev: kept as (r2, three_stdev)
gauss_rescale_3D(x, y, z, mu, three_stdev) ==
    [gauss_r2 |-> (x - mu[1]) * (x - mu[1]) + (y - mu[2]) * (y - mu[2])
                  + (z - mu[3]) * (z - mu[3]),
     three_stdev |-> three_stdev, on |-> TRUE]

gauss_rescale_lim_3D(x, y, z, mu, three_stdev) ==
    LET Z == gauss_rescale_3D(x, y, z, mu, three_stdev)
    IN  [Z EXCEPT !.on = Z.gauss_r2 < three_stdev * three_stdev]

basis_types == {"step", "gauss", "gauss_lim"}

CallBasis3D(basis_func, xp, yp, zp, mu, R) ==
    CASE basis_func = "step" -> step_rescale_3D(xp, yp, zp, mu, R)
      [] basis_func = "gauss" -> gauss_rescale_3D(xp, yp, zp, mu, R)
      [] basis_func = "gauss_lim" -> gauss_rescale_lim_3D(xp, yp, zp, mu, R)

(***************************************************************************)
(* int_pot_3D: pot = basis / y, with y kept as its square y2.              *)
(***************************************************************************)
int_pot_3D(xp, yp, zp, x, R, h, basis_func) ==
    LET y2 == (x - xp) * (x - xp) + yp * yp + zp * zp
        y2f == IF y2 < DistFloor * DistFloor THEN DistFloor * DistFloor ELSE y2
    IN  [y2 |-> y2f, basis |-> CallBasis3D(basis_func, xp, yp, zp, <<0, 0, 0>>, R)]

int_pot_3D_mc(xyz, x, R, h, basis_func) ==
    int_pot_3D(xyz[1], xyz[2], xyz[3], x, R, h, basis_func)

Coords == -MaxCoord..MaxCoord
Mus == {<<0, 0, 0>>, <<1, 0, 0>>, <<-1, 2, 1>>}

BasisIdle == [xyz |-> <<0, 0, 0>>, mu |-> <<0, 0, 0>>, R |-> 0, x |-> 0,
              h |-> 0, basis_func |-> "none"]

InitBasisIdle == b_pc = "off" /\ b_in = BasisIdle /\ b_out = NoResult

InitBasis ==
    /\ b_pc = "input"
    /\ b_in \in [xyz : Coords \X Coords \X Coords, mu : Mus, R : Radii,
                 x : 0..MaxCoord, h : Thickness, basis_func : basis_types]
    /\ b_out = NoResult

StepRescale ==
    /\ UNCHANGED <<gridVars, estVars, cvVars>>
    /\ b_pc = "input"
    /\ b_out' = step_rescale_3D(b_in.xyz[1], b_in.xyz[2], b_in.xyz[3],
                                b_in.mu, b_in.R)
    /\ b_pc' = "step"
    /\ UNCHANGED b_in

IntPot3D ==
    /\ UNCHANGED <<gridVars, estVars, cvVars>>
    /\ b_pc = "input"
    /\ b_out' = int_pot_3D_mc(b_in.xyz, b_in.x, b_in.R, b_in.h, b_in.basis_func)
    /\ b_pc' = "int3d"
    /\ UNCHANGED b_in

(***************************************************************************)
(* MoIKCSD                                                                 *)
(***************************************************************************)
Keys == {"MoI_iters", "sigma", "sigma_S"}
SigmaVals == {1, 3}

\* kwargs.get(key, default)
KwGet(kwargs, key, default) ==
    IF key \in DOMAIN kwargs THEN kwargs[key] ELSE default

\* self.<name> = value
SetAttr(self, name, value) == (name :> value) @@ self

\* np.arange(n): 0, 1, ..., n-1
NpArange(n) == [k \in 1..n |-> k - 1]

\* np.arange(MoI_iters), without the + 1
ItersZeroBased(MoI_iters) == NpArange(MoI_iters)

\* np.arange(self.MoI_iters) + 1
ItersOf(MoI_iters) ==
    LET a == NpArange(MoI_iters) IN [k \in DOMAIN a |-> a[k] + 1]

\* W_TS ** self.iters, elementwise.  A power is kept as base and exponent:
\* (-2/3) ** 20 is beyond the model checker's integers.
IterFactorOf(sigma, sigma_S, iters) ==
    LET W_TS == FDiv(FromInt(sigma - sigma_S), FromInt(sigma + sigma_S))
    IN  [k \in DOMAIN iters |-> [base |-> W_TS, exp |-> iters[k]]]

\* the statements of __init__, in order; super().__init__ runs first here
InitOrderSuperFirst ==
    <<"super", "MoI_iters", "sigma_S", "sigma", "iters", "iter_factor">>

\* the statements of __init__, in order (W_TS, a local, is part of iter_factor)
InitOrder ==
    <<"MoI_iters", "sigma_S", "sigma", "iters", "iter_factor", "super">>

Constructed == Len(InitOrder) + 1
Raised == 0

\* L is used unfloored
FloorL2DNone(L2) == L2

\* if L < 0.00001: L = 0.00001, on the square of L
FloorL2D(L2) ==
    IF L2 < DistFloor * DistFloor THEN DistFloor * DistFloor ELSE L2

\* the integrand: basis_func(dist, R) *
\*   (arcsinh(base/L) + sum_k w[k] * (arcsinh(lo[k]/L) + arcsinh(hi[k]/L)))
\* with L kept as its square L2 and dist as its square dist2
int_pot_2D_moi(self, xp, yp, x, R, h, basis_func) ==
    LET L2 == FloorL2D((x - xp) * (x - xp) + yp * yp)
    IN  [L2 |-> L2,
         base |-> h,
         terms |-> [k \in 1..Len(self.iters) |->
                      [w |-> self.iter_factor[k],
                       lo |-> h - (2 * h * self.iters[k]),
                       hi |-> h + (2 * h * self.iters[k])]],
         basis |-> [func |-> basis_func, dist2 |-> xp * xp + yp * yp, R |-> R]]

Pts == -MaxPt..MaxPt

KwargsSet ==
    {kw \in UNION {[D -> (0..MaxIters) \cup SigmaVals] : D \in SUBSET Keys} :
        /\ "MoI_iters" \in DOMAIN kw => kw["MoI_iters"] <= MaxIters
        /\ "sigma" \in DOMAIN kw => kw["sigma"] \in SigmaVals
        /\ "sigma_S" \in DOMAIN kw => kw["sigma_S"] \in SigmaVals}

NoAttrs == [k \in {} |-> 0]
NoCall == [outcome |-> "none"]
ArgsIdle == [x |-> 0, R |-> 0, h |-> 0, sigma |-> 0, src_type |-> "none",
             xp |-> 0, yp |-> 0]

InitEstIdle ==
    /\ e_pc = Raised /\ e_kwargs = NoAttrs /\ e_self = NoAttrs
    /\ e_super = "no" /\ e_args = ArgsIdle /\ e_call = NoCall /\ e_ncalls = 0

\* MoIKCSD(ele_pos, pots, **kwargs) is about to run; the arguments of the
\* forward_model calls that follow, and the point (xp, yp) at which the
\* quadrature's evaluation of the integrand is observed, are drawn here
InitEst ==
    /\ e_pc = 1
    /\ e_kwargs \in KwargsSet
    /\ e_self = NoAttrs
    /\ e_super = "no"
    /\ e_args \in [x : 0..MaxPt, R : Radii, h : Thickness, sigma : SigmaVals,
                   src_type : {"step", "gauss"}, xp : Pts, yp : Pts]
    /\ e_call = NoCall
    /\ e_ncalls = 0

AtStmt(name) ==
    /\ e_pc \in 1..Len(InitOrder)
    /\ InitOrder[e_pc] = name
    /\ e_super # "running"

\* a statement that reads self.<needs> and sets self.<name>
Assign(name, needs, value) ==
    /\ IF needs \subseteq DOMAIN e_self
       THEN e_self' = SetAttr(e_self, name, value) /\ e_pc' = e_pc + 1
       ELSE e_self' = e_self /\ e_pc' = Raised
    /\ UNCHANGED <<e_kwargs, e_super, e_args, e_call, e_ncalls>>

SetMoIIters ==
    /\ UNCHANGED <<gridVars, basisVars, cvVars>>
    /\ AtStmt("MoI_iters")
    /\ Assign("MoI_iters", {}, KwGet(e_kwargs, "MoI_iters", DefaultMoIIters))

SetSigmaS ==
    /\ UNCHANGED <<gridVars, basisVars, cvVars>>
    /\ AtStmt("sigma_S")
    /\ Assign("sigma_S", {}, KwGet(e_kwargs, "sigma_S", DefaultSigmaS))

SetSigma ==
    /\ UNCHANGED <<gridVars, basisVars, cvVars>>
    /\ AtStmt("sigma")
    /\ Assign("sigma", {}, KwGet(e_kwargs, "sigma", DefaultSigma))

SetIters ==
    /\ UNCHANGED <<gridVars, basisVars, cvVars>>
    /\ AtStmt("iters")
    /\ Assign("iters", {"MoI_iters"}, ItersOf(e_self["MoI_iters"]))

SetIterFactor ==
    /\ UNCHANGED <<gridVars, basisVars, cvVars>>
    /\ AtStmt("iter_factor")
    /\ Assign("iter_factor", {"sigma", "sigma_S", "iters"},
              IterFactorOf(e_self["sigma"], e_self["sigma_S"], e_self["iters"]))

\* super(MoIKCSD, self).__init__(ele_pos, pots, **kwargs) is entered
CallSuper ==
    /\ UNCHANGED <<gridVars, basisVars, cvVars>>
    /\ AtStmt("super")
    /\ e_super = "no"
    /\ e_super' = "running"
    /\ UNCHANGED <<e_pc, e_kwargs, e_self, e_args, e_call, e_ncalls>>

\* ... and returns
SuperReturn ==
    /\ UNCHANGED <<gridVars, basisVars, cvVars>>
    /\ e_super = "running"
    /\ e_pc # Raised
    /\ e_super' = "done"
    /\ e_pc' = e_pc + 1
    /\ UNCHANGED <<e_kwargs, e_self, e_args, e_call, e_ncalls>>

\* forward_model(x, R, h, sigma, src_type), called by the parent constructor
\* while it builds the kernels, or by an estimator operation afterwards.
\* integrate.dblquad evaluates int_pot_2D_moi and returns (value, abserr); when
\* the quadrature does not converge it warns and still returns: converged
\* says which happened.  forward_model drops abserr and returns the scaled value.
ForwardModel ==
    /\ UNCHANGED <<gridVars, basisVars, cvVars>>
    /\ e_pc # Raised
    /\ e_super = "running" \/ e_pc = Constructed
    /\ e_ncalls < MaxCalls
    /\ e_ncalls' = e_ncalls + 1
    /\ IF {"iters", "iter_factor"} \subseteq DOMAIN e_self
       THEN /\ \E converged \in BOOLEAN :
                 e_call' = [outcome |-> "returned",
                            during |-> e_super = "running",
                            converged |-> converged,
                            integrand |-> int_pot_2D_moi(e_self, e_args.xp,
                                             e_args.yp, e_args.x, e_args.R,
                                             e_args.h, e_args.src_type),
                            pot |-> [dblquad |-> <<e_args.x, e_args.R, e_args.h>>,
                                     over_2_pi |-> e_args.sigma]]
            /\ e_pc' = e_pc
       ELSE /\ e_call' = [outcome |-> "AttributeError"]
            /\ e_pc' = Raised
    /\ UNCHANGED <<e_kwargs, e_self, e_super, e_args>>

(***************************************************************************)
(* cross_validate (KCSD2D, the parent class): leave-one-out over a finite  *)
(* candidate list of lambdas.                                              *)
(***************************************************************************)
\* the first candidate of the list with the least total error
SelectFirstMin(lambdas, errs) ==
    lambdas[CHOOSE i \in DOMAIN lambdas :
               /\ \A j \in DOMAIN lambdas : errs[i] <= errs[j]
               /\ \A j \in 1..(i - 1) : errs[j] > errs[i]]

\* the candidate with the least total error, the smallest lambda among equals
SelectLambda(lambdas, errs) ==
    lambdas[CHOOSE i \in DOMAIN lambdas :
               \A j \in DOMAIN lambdas :
                   \/ errs[i] < errs[j]
                   \/ errs[i] = errs[j] /\ lambdas[i] <= lambdas[j]]

CandidateLists ==
    {l \in UNION {[1..n -> 0..MaxLam] : n \in 1..MaxCand} :
        \A i, j \in DOMAIN l : i # j => l[i] # l[j]}

CVIdle == [n_ele |-> 0, lambdas |-> <<>>]
CVStart == [idx |-> 0, fold |-> 0, acc |-> 0, errs |-> <<>>, lambd |-> 0,
            chosen |-> -1, ret |-> -1]

InitCVIdle == cv_pc = "off" /\ cv_in = CVIdle /\ cv_st = CVStart

InitCV ==
    /\ cv_pc = "idle"
    /\ cv_in \in [n_ele : 0..MaxEle, lambdas : CandidateLists]
    /\ cv_st = CVStart

\* cross_validate(lambdas) is called
CVCall ==
    /\ UNCHANGED <<gridVars, basisVars, estVars>>
    /\ cv_pc = "idle"
    /\ IF cv_in.n_ele < 2
       THEN cv_pc' = "failed" /\ cv_st' = cv_st
       ELSE cv_pc' = "fold" /\ cv_st' = [cv_st EXCEPT !.idx = 1, !.fold = 1]
    /\ UNCHANGED cv_in

\* electrode cv_st.fold is held out: fit on the rest at lambdas[idx], predict
\* it, add the squared error
CVFold ==
    /\ UNCHANGED <<gridVars, basisVars, estVars>>
    /\ cv_pc = "fold"
    /\ \E err \in 0..MaxErr :
          LET acc == cv_st.acc + err IN
          IF cv_st.fold < cv_in.n_ele
          THEN /\ cv_st' = [cv_st EXCEPT !.fold = @ + 1, !.acc = acc]
               /\ cv_pc' = "fold"
          ELSE /\ cv_st' = [cv_st EXCEPT !.errs = Append(@, acc), !.acc = 0,
                                         !.fold = 1, !.idx = @ + 1]
               /\ cv_pc' = IF cv_st.idx < Len(cv_in.lambdas)
                           THEN "fold" ELSE "select"
    /\ UNCHANGED cv_in

CVSelect ==
    /\ UNCHANGED <<gridVars, basisVars, estVars>>
    /\ cv_pc = "select"
    /\ cv_st' = [cv_st EXCEPT !.chosen = SelectLambda(cv_in.lambdas, cv_st.errs)]
    /\ cv_pc' = "solve"
    /\ UNCHANGED cv_in

\* the final full-data solve at the chosen lambda, which is stored and returned
CVSolve ==
    /\ UNCHANGED <<gridVars, basisVars, estVars>>
    /\ cv_pc = "solve"
    /\ cv_st' = [cv_st EXCEPT !.lambd = cv_st.chosen, !.ret = cv_st.chosen]
    /\ cv_pc' = "done"
    /\ UNCHANGED cv_in

(***************************************************************************)
(* Specifications.                                                         *)
(***************************************************************************)
InitFwd ==
    /\ InitGridIdle
    /\ InitCVIdle
    /\ \/ InitBasis /\ InitEstIdle
       \/ InitBasisIdle /\ InitEst

Next ==
    \/ StepRescale
    \/ IntPot3D
    \/ SetMoIIters
    \/ SetSigmaS
    \/ SetSigma
    \/ SetIters
    \/ SetIterFactor
    \/ CallSuper
    \/ SuperReturn
    \/ ForwardModel

\* basis functions, forward-model integrands and the MoIKCSD estimator
Spec == InitFwd /\ [][Next]_vars

InitGridOnly == InitGrid /\ InitBasisIdle /\ InitEstIdle /\ InitCVIdle

NextGrid == GetSrcParams \/ MakeSrc

\* the source grid builder
SpecGrid == InitGridOnly /\ [][NextGrid]_vars

InitCVOnly == InitGridIdle /\ InitBasisIdle /\ InitEstIdle /\ InitCV

NextCV == CVCall \/ CVFold \/ CVSelect \/ CVSolve

\* cross-validation; the code is sequential and runs every call to its end
SpecCV == InitCVOnly /\ [][NextCV]_vars /\ WF_vars(NextCV)

(***************************************************************************)
(* Properties: the source grid builder (SpecGrid).                         *)
(***************************************************************************)
\* a <= b, both finite
FLe(a, b) == a.fin /\ b.fin /\ a.n * b.d <= b.n * a.d

GridAxes == <<g_out.lin_x, g_out.lin_y, g_out.lin_z>>

\* the distances between adjacent grid points, over all three axes
Gaps ==
    UNION {{FSub(GridAxes[a][i + 1], GridAxes[a][i]) :
               i \in 1..(Len(GridAxes[a]) - 1)} : a \in Axes}

\* C1: for positive extents and n_src >= 1 the counts nx, ny, nz are each
\* >= 1 and the distance between adjacent source points is one well-defined
\* (finite, positive) value ds, the same on the x, y and z axes.
C1_UniformSpacing ==
    /\ g_pc = "params" =>
          /\ g_out.nx >= 1 /\ g_out.ny >= 1 /\ g_out.nz >= 1
          /\ g_out.ds.fin /\ g_out.ds.n > 0
    /\ g_pc = "made" =>
          /\ \A a \in Axes : Len(GridAxes[a]) >= 1
          /\ \A d \in Gaps : d.fin /\ d.n > 0
          /\ Cardinality(Gaps) <= 1

\* C2: on every axis the grid returned by make_src_3D starts at or before
\* min - ext, ends at or after max + ext, and is centred on the midpoint of
\* the electrode bounding box.
C2_CoversBoxPlusMargin ==
    g_pc = "made" =>
        \A a \in Axes :
            LET lin == GridAxes[a]
                lo == g_in.lo[a]
                hi == g_in.lo[a] + g_in.len[a]
            IN  /\ FLe(lin[1], FromInt(lo - g_in.ext[a]))
                /\ FLe(FromInt(hi + g_in.ext[a]), lin[Len(lin)])
                /\ FAdd(lin[1], lin[Len(lin)]) = FromInt(lo + hi)

\* C3: the radius returned by make_src_3D is k * ds for an integer k >= 0 and
\* is the multiple of ds nearest to R_init (|R - R_init| <= ds / 2), ds being
\* the realized grid spacing.
C3_RadiusSnapped ==
    g_pc = "made" =>
        /\ g_out.R.fin
        /\ Gaps # {}
        /\ \A ds \in Gaps :
              LET k == FDiv(g_out.R, ds)
                  err == FSub(g_out.R, g_in.R_init)
              IN  /\ k.fin /\ k.d = 1 /\ k.n >= 0
                  /\ FLe(FMul(FromInt(2), Fin(Abs(err.n), err.d)), ds)

\* C9: the realized source count nx * ny * nz is never smaller than the
\* requested n_src.
C9_CountAtLeastRequested ==
    /\ g_pc = "params" => g_out.nx * g_out.ny * g_out.nz >= g_in.n_src
    /\ g_pc = "made" =>
          Len(g_out.lin_x) * Len(g_out.lin_y) * Len(g_out.lin_z) >= g_in.n_src

\* a grid of more sources than requested was built from unequal extents
C9_Witness ==
    /\ g_pc = "made"
    /\ g_in.n_src >= 2
    /\ ExtentN(1) # ExtentN(2)
    /\ Len(g_out.lin_x) * Len(g_out.lin_y) * Len(g_out.lin_z) > g_in.n_src

(***************************************************************************)
(* Properties: basis functions, integrands, MoIKCSD (Spec).                *)
(***************************************************************************)
Max(a, b) == IF a >= b THEN a ELSE b

ImageAttrs == {"MoI_iters", "sigma_S", "sigma", "iters", "iter_factor"}

\* C4: the integrand is basis(dist, R) * [asinh(h/L) + sum over k = 1..M of
\* W^k * (asinh((h - 2hk)/L) + asinh((h + 2hk)/L))], with M = MoI_iters
\* (20 when not given) and W = (sigma - sigma_S)/(sigma + sigma_S): the image
\* indices are exactly 1..M and the k-th term carries the weight W^k.
C4_ImageSeries ==
    e_call.outcome = "returned" =>
        LET M == IF "MoI_iters" \in DOMAIN e_kwargs
                 THEN e_kwargs["MoI_iters"] ELSE 20
            sigma == IF "sigma" \in DOMAIN e_kwargs THEN e_kwargs["sigma"] ELSE 1
            sigma_S == IF "sigma_S" \in DOMAIN e_kwargs
                       THEN e_kwargs["sigma_S"] ELSE 5
            W == Fin(sigma - sigma_S, sigma + sigma_S)
            h == e_args.h
            I == e_call.integrand
        IN  /\ I.base = h
            /\ Len(I.terms) = M
            /\ \A k \in 1..M :
                  I.terms[k] = [w |-> [base |-> W, exp |-> k],
                                lo |-> h - 2 * h * k,
                                hi |-> h + 2 * h * k]
            /\ I.basis = [func |-> e_args.src_type,
                          dist2 |-> e_args.xp * e_args.xp + e_args.yp * e_args.yp,
                          R |-> e_args.R]

\* the integrand was evaluated with MoI_iters left to its default and W # 0
C4_Witness ==
    /\ e_call.outcome = "returned"
    /\ "MoI_iters" \notin DOMAIN e_kwargs
    /\ Len(e_call.integrand.terms) = 20
    /\ e_self["sigma"] # e_self["sigma_S"]

\* C5: forward_model never returns a potential from a quadrature that did
\* not converge; the failure reaches the caller as an error.
C5_NonConvergenceSurfaced ==
    e_call.outcome = "returned" => e_call.converged

\* C6: step_rescale_3D(x, y, z, mu, R) is 3/(4 pi R^3) at every point within
\* R of the centre mu and 0 elsewhere, for every centre mu.
C6_StepCentredOnMu ==
    b_pc = "step" =>
        LET dx == b_in.xyz[1] - b_in.mu[1]
            dy == b_in.xyz[2] - b_in.mu[2]
            dz == b_in.xyz[3] - b_in.mu[3]
        IN  b_out = Fin(IF dx * dx + dy * dy + dz * dz <= b_in.R * b_in.R
                        THEN 3 ELSE 0,
                        4 * b_in.R * b_in.R * b_in.R)

\* C8: the integrands never divide by a distance below the floor 0.00001:
\* int_pot_3D divides by max(d, floor), d the distance from (xp, yp, zp) to
\* (x, 0, 0), and int_pot_2D_moi uses L = max(sqrt((x - xp)^2 + yp^2), floor),
\* also where the integration point and the field point coincide.
C8_DistanceFloor ==
    /\ b_pc = "int3d" =>
          LET d2 == (b_in.x - b_in.xyz[1]) * (b_in.x - b_in.xyz[1])
                    + b_in.xyz[2] * b_in.xyz[2] + b_in.xyz[3] * b_in.xyz[3]
          IN  /\ b_out.y2 = Max(d2, DistFloor * DistFloor)
              /\ b_out.y2 > 0
    /\ e_call.outcome = "returned" =>
          LET d2 == (e_args.x - e_args.xp) * (e_args.x - e_args.xp)
                    + e_args.yp * e_args.yp
          IN  /\ e_call.integrand.L2 = Max(d2, DistFloor * DistFloor)
              /\ e_call.integrand.L2 > 0

\* the integrand was evaluated where the integration point is the field point
C8_Witness ==
    /\ e_call.outcome = "returned"
    /\ e_args.xp = e_args.x
    /\ e_args.yp = 0
    /\ e_call.integrand.L2 = DistFloor * DistFloor

C10_SetBeforeSuper ==
    /\ e_call.outcome # "AttributeError"
    /\ (e_super # "no" \/ e_ncalls > 0) =>
          /\ ImageAttrs \subseteq DOMAIN e_self
          /\ Len(e_self["iters"]) = e_self["MoI_iters"]
          /\ Len(e_self["iter_factor"]) = e_self["MoI_iters"]

C10_NeverChanged ==
    (e_super # "no" /\ ImageAttrs \subseteq DOMAIN e_self) =>
        /\ ImageAttrs \subseteq DOMAIN e_self'
        /\ \A k \in ImageAttrs : e_self'[k] = e_self[k]

\* C10: MoI_iters, sigma_S, sigma, iters and iter_factor are all set before
\* the parent constructor runs; every forward_model call made during or after
\* construction finds iters and iter_factor defined, of length MoI_iters; and
\* no later step changes them.
C10_ImageStateFixed == []C10_SetBeforeSuper /\ [][C10_NeverChanged]_vars

\* forward_model ran during the parent constructor and again after it
C10_Witness ==
    /\ e_pc = Constructed
    /\ e_ncalls >= 2
    /\ e_call.outcome = "returned"
    /\ ~e_call.during
    /\ e_self["MoI_iters"] >= 1

(***************************************************************************)
(* Properties: cross-validation (SpecCV).                                  *)
(***************************************************************************)
C7_Result ==
    /\ cv_pc = "done" =>
          /\ cv_in.n_ele >= 2
          /\ \E i \in DOMAIN cv_in.lambdas :
                /\ cv_st.ret = cv_in.lambdas[i]
                /\ \A j \in DOMAIN cv_in.lambdas :
                      /\ cv_st.errs[i] <= cv_st.errs[j]
                      /\ cv_st.errs[i] = cv_st.errs[j] =>
                            cv_in.lambdas[i] <= cv_in.lambdas[j]
          /\ cv_st.lambd = cv_st.ret
    /\ cv_in.n_ele < 2 => cv_pc \in {"idle", "failed"} /\ cv_st.ret = -1

\* C7: on at least 2 electrodes cross_validate terminates and returns a
\* candidate with the least summed leave-one-out squared error, the smallest
\* such lambda on a tie, stored as the estimator's lambda after the final
\* solve; on fewer than 2 electrodes it fails and returns nothing.
C7_CrossValidate == <>(cv_pc \in {"done", "failed"}) /\ []C7_Result

\* a tie between two candidates, the larger lambda first in the list
C7_Witness ==
    /\ cv_pc = "done"
    /\ Len(cv_in.lambdas) >= 2
    /\ cv_in.lambdas[1] > cv_in.lambdas[2]
    /\ cv_st.errs[1] = cv_st.errs[2]
    /\ cv_st.ret = cv_in.lambdas[2]
    /\ cv_st.ret # 0

====
